---- MODULE Spec2Model ----
(***************************************************************************)
(* Model of src/pact/v3/generators/__init__.py (pact-python): the          *)
(* ConcreteGenerator value object, its to_dict() serialisation and the     *)
(* twelve builder functions.                                               *)
(*                                                                         *)
(* Python values are records [t, i, s] (type name, int payload, str        *)
(* payload) so that None, 0 and "" are three different values.  A dict is  *)
(* a function from its keys to values; dict objects live in `heap` and are *)
(* named by references, so that aliasing between objects is expressible.   *)
(***************************************************************************)
EXTENDS Integers, Sequences, FiniteSets, TLC

\* Largest integer argument tried (integers 0..MaxInt).
MaxInt == 1
\* Number of threads of the concurrent specification.
NThreads == 2

Threads == 1..NThreads

----------------------------------------------------------------------------
\* Python values

PyNone == [t |-> "NoneType", i |-> 0, s |-> ""]
PyInt(n) == [t |-> "int", i |-> n, s |-> ""]
PyStr(x) == [t |-> "str", i |-> 0, s |-> x]

\* bool(v) for the values above
Truthy(v) == \/ v.t = "int" /\ v.i # 0
             \/ v.t = "str" /\ v.s # ""

\* Optional[dict]: None, or a dict with content d
EmptyDict == [k \in {} |-> PyNone]
NoDict == [isNone |-> TRUE, d |-> EmptyDict]
Dict(m) == [isNone |-> FALSE, d |-> m]

\* dict.update: entries of other replace or extend those of d
DictUpdate(d, other) ==
  [k \in DOMAIN d \cup DOMAIN other |-> IF k \in DOMAIN other THEN other[k] ELSE d[k]]

TypeKey == "pact:generator:type"

GeneratorTypeV3 ==
  {"RandomInt", "RandomDecimal", "RandomHexadecimal", "RandomString", "Regex",
   "Uuid", "Date", "Time", "DateTime", "RandomBoolean"}

GeneratorTypeV4 == GeneratorTypeV3 \cup {"ProviderState", "MockServerURL"}

----------------------------------------------------------------------------
\* ConcreteGenerator.__init__: the two fields it stores

InitKeepsNone(generator_type, extra_args) ==
  [type |-> generator_type, extra_args |-> extra_args]

ConcreteGenerator(generator_type, extra_args) ==
  [type |-> generator_type,
   extra_args |-> IF ~extra_args.isNone THEN extra_args ELSE Dict(EmptyDict)]

\* The builder functions

random_int(min_val, max_val) ==
  ConcreteGenerator(PyStr("RandomInt"), Dict(("min" :> min_val) @@ ("max" :> max_val)))

random_decimal(digits) ==
  ConcreteGenerator(PyStr("RandomDecimal"), Dict("digits" :> digits))

random_hexadecimal(digits) ==
  ConcreteGenerator(PyStr("RandomHexadecimal"), Dict("digits" :> digits))

random_string_wrong_key(size) ==
  ConcreteGenerator(PyStr("RandomString"), Dict("digits" :> size))

random_string(size) ==
  ConcreteGenerator(PyStr("RandomString"), Dict("size" :> size))

regex(regex_) ==
  ConcreteGenerator(PyStr("Regex"), Dict("regex" :> regex_))

uuid_with_default(format_str) ==
  ConcreteGenerator(PyStr("Uuid"),
    Dict("format" :> IF format_str = PyNone THEN PyStr("lower-case-hyphenated")
                     ELSE format_str))

uuid(format_str) ==
  ConcreteGenerator(PyStr("Uuid"), Dict("format" :> format_str))

date(format_str) ==
  ConcreteGenerator(PyStr("Date"), Dict("format" :> format_str))

time(format_str) ==
  ConcreteGenerator(PyStr("Time"), Dict("format" :> format_str))

date_time_wrong_case(format_str) ==
  ConcreteGenerator(PyStr("Datetime"), Dict("format" :> format_str))

date_time(format_str) ==
  ConcreteGenerator(PyStr("DateTime"), Dict("format" :> format_str))

random_boolean ==
  ConcreteGenerator(PyStr("RandomBoolean"), NoDict)

provider_state(expression) ==
  ConcreteGenerator(PyStr("ProviderState"), Dict("expression" :> expression))

mock_server_url(regex_, example) ==
  ConcreteGenerator(PyStr("MockServerURL"),
    Dict(("regex" :> regex_) @@ ("example" :> example)))

----------------------------------------------------------------------------
\* to_dict, line 64: {k: v for k, v in self.extra_args.items() if v is not None}

ItemsUnfiltered(d) == d

ItemsTruthy(d) == [k \in {x \in DOMAIN d : Truthy(d[x])} |-> d[k]]

NotNoneItems(d) == [k \in {x \in DOMAIN d : d[x] # PyNone} |-> d[k]]

\* to_dict run by itself on a generator with the given type and extra_args
ToDictAlone(type, extra_args) ==
  DictUpdate(TypeKey :> type, NotNoneItems(extra_args))

----------------------------------------------------------------------------
\* State

VARIABLES
  pc,    \* pc[t]: "idle" | "built" | "l64" | "done" | "raised"
  call,  \* call[t]: the call thread t made to get its generator
  gen,   \* gen[t]: the generator object thread t holds (type, extra_args ref)
  data,  \* data[t]: the local `data` of t's running to_dict (a dict ref)
  ret,   \* ret[t]: what t's last to_dict returned
  heap   \* heap[r]: content of the dict object named by reference r

vars == <<pc, call, gen, data, ret, heap>>

\* References to dict objects: every thread allocates in its own arena, so a
\* fresh object never coincides with an object another thread holds.
Refs == Threads \X {"extra_args", "data"}
NoneRef == <<0, "None">>

NoGen == [type |-> PyNone, extra_args |-> NoneRef]
NoCall == [fn |-> "", a |-> PyNone, b |-> PyNone, x |-> NoDict]

\* The dict object that becomes self.extra_args: the caller's dict literal, or
\* the {} of line 55.
ArgsRef(t) == <<t, "extra_args">>

\* The dict object created by the literal of lines 61-63.
DataRefShared(t, g) == <<1, "data">>

DataRefAlias(t, g) == g.extra_args

DataRef(t, g) == <<t, "data">>

\* Line 64 on the heap: data.update(<the items of extra_args that are not None>)
HeapAfterUpdatePop(h, dref, aref) ==
  [h EXCEPT ![dref] = DictUpdate(h[dref], NotNoneItems(h[aref])),
            ![aref] = EmptyDict]

HeapAfterUpdate(h, dref, aref) ==
  [h EXCEPT ![dref] = DictUpdate(h[dref], NotNoneItems(h[aref]))]

Init ==
  /\ pc = [t \in Threads |-> "idle"]
  /\ call = [t \in Threads |-> NoCall]
  /\ gen = [t \in Threads |-> NoGen]
  /\ data = [t \in Threads |-> NoneRef]
  /\ ret = [t \in Threads |-> NoDict]
  /\ heap = [r \in Refs |-> EmptyDict]

\* Argument values
StrVals == {"", "simple", "[0-9"}
OptInts == {PyNone} \cup {PyInt(i) : i \in 0..MaxInt}
OptStrs == {PyNone} \cup {PyStr(x) : x \in StrVals}
ConcOptInts == {PyNone, PyInt(0)}
ConcOptStrs == {PyNone, PyStr("simple")}
ConcStrs == {PyStr("simple")}

\* extra_args mappings tried when ConcreteGenerator is constructed directly
DirectKeys == {TypeKey, "min"}
DirectVals == {PyNone, PyInt(0), PyStr("Regex")}
DirectExtras ==
  {NoDict} \cup
  UNION {{Dict(m) : m \in [K -> DirectVals]} : K \in SUBSET DirectKeys}

\* Thread t obtains the generator g from the call fn(a, b) (x: the extra_args
\* handed to a direct ConcreteGenerator(...) call).
Construct(t, fn, a, b, x, g) ==
  /\ pc[t] = "idle"
  /\ pc' = [pc EXCEPT ![t] = "built"]
  /\ call' = [call EXCEPT ![t] = [fn |-> fn, a |-> a, b |-> b, x |-> x]]
  /\ gen' = [gen EXCEPT ![t] =
       [type |-> g.type,
        extra_args |-> IF g.extra_args.isNone THEN NoneRef ELSE ArgsRef(t)]]
  /\ heap' = [heap EXCEPT ![ArgsRef(t)] = g.extra_args.d]
  /\ UNCHANGED <<data, ret>>

\* A call of one of the twelve builders, optional arguments from I (ints) and
\* S (strs), required ones from R
Builders(t, I, S, R) ==
  \/ \E a \in I, b \in I : Construct(t, "random_int", a, b, NoDict, random_int(a, b))
  \/ \E a \in I : Construct(t, "random_decimal", a, PyNone, NoDict, random_decimal(a))
  \/ \E a \in I : Construct(t, "random_hexadecimal", a, PyNone, NoDict, random_hexadecimal(a))
  \/ \E a \in I : Construct(t, "random_string", a, PyNone, NoDict, random_string(a))
  \/ \E a \in R : Construct(t, "regex", a, PyNone, NoDict, regex(a))
  \/ \E a \in S : Construct(t, "uuid", a, PyNone, NoDict, uuid(a))
  \/ \E a \in R : Construct(t, "date", a, PyNone, NoDict, date(a))
  \/ \E a \in R : Construct(t, "time", a, PyNone, NoDict, time(a))
  \/ \E a \in R : Construct(t, "date_time", a, PyNone, NoDict, date_time(a))
  \/ Construct(t, "random_boolean", PyNone, PyNone, NoDict, random_boolean)
  \/ \E a \in S : Construct(t, "provider_state", a, PyNone, NoDict, provider_state(a))
  \/ \E a \in S, b \in S : Construct(t, "mock_server_url", a, b, NoDict, mock_server_url(a, b))

\* ConcreteGenerator(generator_type, extra_args) called directly
Direct(t) ==
  \E k \in GeneratorTypeV4, x \in DirectExtras :
    Construct(t, "ConcreteGenerator", PyStr(k), PyNone, x, ConcreteGenerator(PyStr(k), x))

\* to_dict, lines 61-63: data = {"pact:generator:type": self.type}
ToDictData(t) ==
  /\ pc[t] \in {"built", "done"}
  /\ pc' = [pc EXCEPT ![t] = "l64"]
  /\ data' = [data EXCEPT ![t] = DataRef(t, gen[t])]
  /\ heap' = [heap EXCEPT ![DataRef(t, gen[t])] = TypeKey :> gen[t].type]
  /\ UNCHANGED <<call, gen, ret>>

\* to_dict, lines 64-65: data.update(...); return data.  self.extra_args.items()
\* raises AttributeError when extra_args is None.
ToDictUpdate(t) ==
  /\ pc[t] = "l64"
  /\ IF gen[t].extra_args = NoneRef
     THEN /\ pc' = [pc EXCEPT ![t] = "raised"]
          /\ UNCHANGED <<heap, ret>>
     ELSE /\ heap' = HeapAfterUpdate(heap, data[t], gen[t].extra_args)
          /\ ret' = [ret EXCEPT ![t] = Dict(heap'[data[t]])]
          /\ pc' = [pc EXCEPT ![t] = "done"]
  /\ UNCHANGED <<call, gen, data>>

\* The thread drops its generator and result; the objects are collected.
Release(t) ==
  /\ pc[t] \in {"built", "done"}
  /\ pc' = [pc EXCEPT ![t] = "idle"]
  /\ call' = [call EXCEPT ![t] = NoCall]
  /\ gen' = [gen EXCEPT ![t] = NoGen]
  /\ data' = [data EXCEPT ![t] = NoneRef]
  /\ ret' = [ret EXCEPT ![t] = NoDict]
  /\ heap' = [heap EXCEPT ![<<t, "extra_args">>] = EmptyDict,
                          ![<<t, "data">>] = EmptyDict]

\* One caller, every argument value, direct construction included
Next ==
  \/ Builders(1, OptInts, OptStrs, OptStrs)
  \/ Direct(1)
  \/ ToDictData(1)
  \/ ToDictUpdate(1)
  \/ Release(1)

Spec == Init /\ [][Next]_vars

\* Several threads calling the builders and to_dict with no coordination
NextConc ==
  \E t \in Threads :
    \/ Builders(t, ConcOptInts, ConcOptStrs, ConcStrs)
    \/ ToDictData(t)
    \/ ToDictUpdate(t)
    \/ Release(t)

SpecConc == Init /\ [][NextConc]_vars

----------------------------------------------------------------------------
\* Vocabulary of the properties

Builder(c) == c.fn \notin {"", "ConcreteGenerator"}
Returned(t) == pc[t] = "done"
Result(t) == ret[t].d
Holds(t) == pc[t] \in {"built", "l64", "done"}

\* The builders whose (single) argument has no default
RequiredArg == {"regex", "date", "time", "date_time"}

\* The wire keys of a builder's arguments, in argument order
WireKeys(fn) ==
  CASE fn = "random_int" -> <<"min", "max">>
    [] fn \in {"random_decimal", "random_hexadecimal"} -> <<"digits">>
    [] fn = "random_string" -> <<"size">>
    [] fn = "regex" -> <<"regex">>
    [] fn \in {"uuid", "date", "time", "date_time"} -> <<"format">>
    [] fn = "provider_state" -> <<"expression">>
    [] fn = "mock_server_url" -> <<"regex", "example">>
    [] OTHER -> <<>>

Arg(c, i) == IF i = 1 THEN c.a ELSE c.b

\* The kind tag stated for each builder
KindTag(fn) ==
  CASE fn = "random_int" -> "RandomInt"
    [] fn = "random_decimal" -> "RandomDecimal"
    [] fn = "random_hexadecimal" -> "RandomHexadecimal"
    [] fn = "random_string" -> "RandomString"
    [] fn = "regex" -> "Regex"
    [] fn = "uuid" -> "Uuid"
    [] fn = "date" -> "Date"
    [] fn = "time" -> "Time"
    [] fn = "date_time" -> "DateTime"
    [] fn = "random_boolean" -> "RandomBoolean"
    [] fn = "provider_state" -> "ProviderState"
    [] fn = "mock_server_url" -> "MockServerURL"
    [] OTHER -> ""

\* The per-kind parameter table
AllowedParams(kind) ==
  CASE kind = "RandomInt" -> {"min", "max"}
    [] kind \in {"RandomDecimal", "RandomHexadecimal"} -> {"digits"}
    [] kind = "RandomString" -> {"size"}
    [] kind = "Regex" -> {"regex"}
    [] kind \in {"Uuid", "Date", "Time", "DateTime"} -> {"format"}
    [] kind = "ProviderState" -> {"expression"}
    [] kind = "MockServerURL" -> {"regex", "example"}
    [] OTHER -> {}

OptionalsOmitted(c) ==
  c.fn \in RequiredArg \/ (c.a = PyNone /\ c.b = PyNone)

\* Two threads hold generators of equal type and equal extra_args
SameGenerator(t, u) ==
  /\ Holds(t) /\ Holds(u)
  /\ gen[t].type = gen[u].type
  /\ gen[t].extra_args # NoneRef /\ gen[u].extra_args # NoneRef
  /\ heap[gen[t].extra_args] = heap[gen[u].extra_args]

----------------------------------------------------------------------------
\* C1 as stated: a builder called with every optional argument omitted (the
\* required one, if any, supplied) serialises to the type key alone.
C1_OnlyTypeKey ==
  \A t \in Threads :
    Returned(t) /\ Builder(call[t]) /\ OptionalsOmitted(call[t])
      => DOMAIN Result(t) = {TypeKey}

\* C1 amended: with every optional argument omitted, to_dict() has the type
\* key and, for regex, date, time and date_time, the key of the required
\* argument when its value is not None, and no other key.
C1_TypeKeyAndRequired ==
  \A t \in Threads :
    Returned(t) /\ Builder(call[t]) /\ OptionalsOmitted(call[t])
      => DOMAIN Result(t) =
           {TypeKey} \cup
           (IF call[t].fn \in RequiredArg /\ call[t].a # PyNone
            THEN {WireKeys(call[t].fn)[1]} ELSE {})

C1_Witness ==
  \E t \in Threads :
    /\ Returned(t) /\ call[t].fn = "regex" /\ call[t].a = PyStr("[0-9")
    /\ DOMAIN Result(t) = {TypeKey, "regex"}

\* C2: every builder argument supplied with a value other than None appears
\* in to_dict() under its wire key with exactly that value (0 and "" too).
C2_SuppliedPassedThrough ==
  \A t \in Threads :
    Returned(t) /\ Builder(call[t]) =>
      \A i \in 1..Len(WireKeys(call[t].fn)) :
        Arg(call[t], i) # PyNone =>
          /\ WireKeys(call[t].fn)[i] \in DOMAIN Result(t)
          /\ Result(t)[WireKeys(call[t].fn)[i]] = Arg(call[t], i)

C2_Witness ==
  \E t \in Threads :
    /\ Returned(t) /\ call[t].fn = "mock_server_url"
    /\ call[t].a = PyStr("") /\ call[t].b = PyStr("[0-9")
    /\ Result(t)["regex"] = PyStr("") /\ Result(t)["example"] = PyStr("[0-9")

\* C3: the type key of a builder's generator holds that builder's own kind
\* tag, one of the twelve, whatever the arguments.
C3_KindTag ==
  \A t \in Threads :
    Returned(t) /\ Builder(call[t]) =>
      /\ TypeKey \in DOMAIN Result(t)
      /\ Result(t)[TypeKey] = PyStr(KindTag(call[t].fn))
      /\ Result(t)[TypeKey].s \in GeneratorTypeV4

C3_Witness ==
  \E t \in Threads :
    /\ Returned(t) /\ call[t].fn = "date_time" /\ call[t].a = PyStr("simple")
    /\ Result(t)[TypeKey] = PyStr("DateTime")

\* C4: no key of a to_dict() result is mapped to None, for builders and for
\* direct construction with any extra_args.
C4_NoNoneEntry ==
  \A t \in Threads :
    Returned(t) => \A k \in DOMAIN Result(t) : Result(t)[k] # PyNone

C4_Witness ==
  \E t \in Threads :
    /\ Returned(t) /\ call[t].fn = "ConcreteGenerator"
    /\ ~call[t].x.isNone /\ "min" \in DOMAIN call[t].x.d
    /\ call[t].x.d["min"] = PyNone
    /\ "min" \notin DOMAIN Result(t)

\* C5: the keys of a builder's to_dict() are the type key and parameter
\* names the per-kind table allows for the generator's kind.
C5_KeysWithinTable ==
  \A t \in Threads :
    Returned(t) /\ Builder(call[t]) =>
      DOMAIN Result(t) \subseteq {TypeKey} \cup AllowedParams(gen[t].type.s)

C5_Witness ==
  \E t \in Threads :
    /\ Returned(t) /\ call[t].fn = "random_string" /\ call[t].a = PyInt(0)
    /\ DOMAIN Result(t) = {TypeKey, "size"}

\* C6: no call raises: every construction yields a generator and every
\* to_dict() on it a mapping.
C6_NeverFails ==
  \A t \in Threads :
    /\ pc[t] # "raised"
    /\ Holds(t) => gen[t] # NoGen /\ gen[t].extra_args \in Refs
    /\ Returned(t) => ~ret[t].isNone

C6_Witness ==
  \E t \in Threads :
    /\ Returned(t) /\ call[t].fn = "random_boolean"
    /\ Result(t) = (TypeKey :> PyStr("RandomBoolean"))

\* C7: a to_dict() call returns the mapping that every earlier call on a
\* generator of equal type and equal extra_args returned (the same generator
\* serialised again included).
C7_Pure ==
  [][\A t \in Threads :
       pc[t] = "l64" /\ pc'[t] = "done" =>
         \A u \in Threads :
           ~ret[u].isNone /\ SameGenerator(t, u) => ret'[t] = ret[u]]_vars

C7_Witness ==
  \E t, u \in Threads :
    /\ t # u /\ Returned(t) /\ Returned(u)
    /\ SameGenerator(t, u) /\ call[t].a # PyNone
    /\ ret[t] = ret[u]

\* C8: no step other than dropping a generator changes the type or the
\* extra_args of any generator that exists.
C8_Immutable ==
  [][\A t \in Threads :
       Holds(t) /\ pc'[t] # "idle" =>
         /\ gen'[t] = gen[t]
         /\ gen[t].extra_args # NoneRef =>
              heap'[gen[t].extra_args] = heap[gen[t].extra_args]]_vars

C8_Witness ==
  \E t, u \in Threads :
    /\ t # u /\ Returned(t) /\ pc[u] = "built"
    /\ call[t].fn = "random_int" /\ call[t].a = PyInt(0)
    /\ heap[gen[t].extra_args] = (("min" :> PyInt(0)) @@ ("max" :> call[t].b))

\* C9: under any interleaving a to_dict() returns what it returns when run
\* alone on its generator, and no two threads' dict objects coincide.
C9_Interleaved ==
  \A t \in Threads :
    /\ Returned(t) =>
         ret[t] = Dict(ToDictAlone(gen[t].type, heap[gen[t].extra_args]))
    /\ \A u \in Threads \ {t} :
         Holds(t) /\ Holds(u) =>
           /\ gen[t].extra_args # gen[u].extra_args
           /\ data[t] # NoneRef => data[t] \notin {data[u], gen[u].extra_args}

C9_Witness ==
  \E t, u \in Threads :
    /\ t # u /\ Returned(t) /\ pc[u] = "l64"
    /\ call[t].fn = "random_boolean" /\ call[u].fn = "mock_server_url"
    /\ call[u].a # PyNone

\* C10: the type key of every to_dict() result holds the type the generator
\* was constructed with, whatever extra_args contains.
C10_TagIsOwnType ==
  \A t \in Threads :
    Returned(t) =>
      TypeKey \in DOMAIN Result(t) /\ Result(t)[TypeKey] = gen[t].type

====
